---- MODULE Spec2Model ----
(***************************************************************************)
(* A model of qwen_tts.py: the Mode/Model registry (MODELS), the input     *)
(* resolver (_read_file_or_string), the model loader (_load_model), the    *)
(* generation pipeline (_generate_and_save) and the three commands clone,  *)
(* design and custom.                                                      *)
(*                                                                         *)
(* Strings whose characters the code inspects (the "text or file" values,  *)
(* file contents) are sequences of one-character strings.  Strings the     *)
(* code only passes around (model identifiers, sizes) are TLA+ strings.    *)
(***************************************************************************)
EXTENDS Integers, Sequences, FiniteSets, TLC

VARIABLES
    pc,            \* position of the running invocation ("idle" between invocations)
    args,          \* the command and its options for the running invocation
    files,         \* input side of the filesystem: text files by canonical path
    fs,            \* output side of the filesystem: the file at each output path
    fs0,           \* fs as it was when the running invocation started
    trace,         \* the steps the running invocation has executed, in order
    model_id,      \* local model_id of the command
    model,         \* local model of the command (the handle from load_model)
    resolved,      \* local voice_desc / instruct_text of design / custom
    audio_chunks,  \* local audio_chunks of _generate_and_save
    emitted,       \* the chunks the generator has yielded so far, in emission order
    stream,        \* state of the generator returned by model.generate()
    report,        \* what _generate_and_save computed for its "Saved:" line
    exit_code,     \* process exit status of the invocation (NotExited while running)
    probe,         \* input of the pure-function specification
    answer         \* output of the pure-function specification

vars == <<pc, args, files, fs, fs0, trace, model_id, model, resolved,
          audio_chunks, emitted, stream, report, exit_code, probe, answer>>

None == "None"

\* ------------------------------------------------------------------ bounds

MaxTokens == 3
MaxChunks == 2
MaxChunkLen == 2

\* ---------------------------------------------------------------- constants

SAMPLE_RATE == 24000

MODELS ==
    [clone  |-> [s06B |-> "mlx-community/Qwen3-TTS-12Hz-0.6B-Base-bf16",
                 s17B |-> "mlx-community/Qwen3-TTS-12Hz-1.7B-Base-bf16"],
     custom |-> [s06B |-> "mlx-community/Qwen3-TTS-12Hz-0.6B-CustomVoice-bf16",
                 s17B |-> "mlx-community/Qwen3-TTS-12Hz-1.7B-CustomVoice-bf16"],
     design |-> [s17B |-> "mlx-community/Qwen3-TTS-12Hz-1.7B-VoiceDesign-bf16"]]

\* ModelSize.small.value = "0.6B", ModelSize.large.value = "1.7B"; the record
\* fields s06B and s17B stand for the dictionary keys "0.6B" and "1.7B".
ModelSize == [small |-> "s06B", large |-> "s17B"]

Modes == {"clone", "custom", "design"}
Sizes == {"small", "large"}

\* ------------------------------------------------------------ string helpers

Last(s) == s[Len(s)]

RECURSIVE SplitSlash(_)
\* str.split("/"): the components between slashes, empty ones included
SplitSlash(s) ==
    IF s = <<>> THEN << <<>> >>
    ELSE LET rest == SplitSlash(Tail(s))
         IN  IF Head(s) = "/" THEN << <<>> >> \o rest
             ELSE << <<Head(s)>> \o Head(rest) >> \o Tail(rest)

RECURSIVE Join(_)
\* "/".join(parts)
Join(parts) ==
    IF parts = <<>> THEN <<>>
    ELSE IF Len(parts) = 1 THEN parts[1]
    ELSE parts[1] \o <<"/">> \o Join(Tail(parts))

Whitespace == {" ", "\n"}

RECURSIVE LStrip(_)
LStrip(s) == IF s # <<>> /\ Head(s) \in Whitespace THEN LStrip(Tail(s)) ELSE s

RECURSIVE RStrip(_)
RStrip(s) ==
    IF s # <<>> /\ Last(s) \in Whitespace THEN RStrip(SubSeq(s, 1, Len(s) - 1)) ELSE s

\* str.strip()
Strip(s) == RStrip(LStrip(s))

\* ------------------------------------------------------------------ pathlib

IsDotOrEmpty(c) == c = <<>> \/ c = <<".">>

\* Path(value): empty and "." components are dropped, ".." is kept, a leading
\* slash makes the path absolute.
Path(value) ==
    [root  |-> (value # <<>> /\ Head(value) = "/"),
     parts |-> SelectSeq(SplitSlash(value), LAMBDA c : ~IsDotOrEmpty(c))]

\* str(p)
PathStr(p) ==
    IF p.parts = <<>> THEN (IF p.root THEN <<"/">> ELSE <<".">>)
    ELSE (IF p.root THEN <<"/">> ELSE <<>>) \o Join(p.parts)

\* p.name
PathName(p) == IF p.parts = <<>> THEN <<>> ELSE Last(p.parts)

\* name.rfind("."), 1-based, 0 when there is no dot
RFindDot(name) ==
    LET dots == {i \in 1..Len(name) : name[i] = "."}
    IN  IF dots = {} THEN 0 ELSE CHOOSE i \in dots : \A j \in dots : j <= i

\* p.suffix: the last dot and what follows it, unless that dot is the first
\* or the last character of the name
PathSuffix(p) ==
    LET name == PathName(p)
        i    == RFindDot(name)
    IN  IF 1 < i /\ i < Len(name) THEN SubSeq(name, i, Len(name)) ELSE <<>>

\* ------------------------------------------------ the filesystem (text files)

\* Canonical locations of the text files a run may find, relative to the
\* working directory: a.txt, the dot-file .txt, and .txt inside directory a.
FilePaths == { << <<"a", ".", "t", "x", "t">> >>,
               << <<".", "t", "x", "t">> >>,
               << <<"a">>, <<".", "t", "x", "t">> >> }

Texts == { <<"h", "i">>, <<" ", "h", " ", "i", "\n">> }

\* A file is absent, present and readable with some text, or present and
\* not readable as text (no read permission, or bytes that do not decode).
NoTextFile == [exists |-> FALSE, readable |-> FALSE, text |-> <<>>]

FileEntries == {NoTextFile} \cup [exists : {TRUE}, readable : {TRUE}, text : Texts]
                            \cup {[exists |-> TRUE, readable |-> FALSE, text |-> <<>>]}

\* where a failed path walk ends: no component is ever named "/"
Outside == << <<"/">> >>

IsFileAt(loc) == loc \in FilePaths /\ files[loc].exists
IsDirAt(loc) ==
    loc # Outside /\
    (loc = <<>> \/ \E f \in FilePaths :
                      /\ files[f].exists
                      /\ Len(f) > Len(loc)
                      /\ SubSeq(f, 1, Len(loc)) = loc)

RECURSIVE Walk(_, _)
\* The kernel's path walk from directory loc over the components comps:
\* the location reached, or Outside when the walk fails or leaves the tree.
Walk(loc, comps) ==
    IF comps = <<>> THEN loc
    ELSE IF ~IsDirAt(loc) THEN Outside
    ELSE LET c == Head(comps)
         IN  IF IsDotOrEmpty(c) THEN Walk(loc, Tail(comps))
             ELSE IF c = <<".", ".">>
                  THEN (IF loc = <<>> THEN Outside
                        ELSE Walk(SubSeq(loc, 1, Len(loc) - 1), Tail(comps)))
             ELSE Walk(loc \o <<c>>, Tail(comps))

\* os.stat(s) finds a regular file
StatIsFile(s) ==
    /\ s # <<>>
    /\ Head(s) # "/"
    /\ IsFileAt(Walk(<<>>, SplitSlash(s)))

\* p.is_file()
PathIsFile(p) == StatIsFile(PathStr(p))

\* how a call ends: with an exception, or with a value
Raise(exc) == [kind |-> "raise", exc |-> exc]
Return(v) == [kind |-> "return", val |-> v]

\* p.read_text(): the text, or an exception (PermissionError,
\* UnicodeDecodeError) for a file that cannot be read as text
PathReadText(p) ==
    LET e == files[Walk(<<>>, p.parts)]
    IN  IF e.readable THEN Return(e.text) ELSE Raise("OSError")

\* --------------------------------------------------------- the input resolver

\* _read_file_or_string
ReadFileOrString(value) ==
    LET p == Path(value)
    IN  IF PathSuffix(p) = <<".", "t", "x", "t">> /\ PathIsFile(p)
        THEN LET r == PathReadText(p)
             IN  IF r.kind = "return" THEN Return(Strip(r.val)) ELSE r
        ELSE Return(value)

\* --------------------------------------------------------------- the registry

LookupAnySize(mode, size) ==
    IF ModelSize[size] \in DOMAIN MODELS[mode]
    THEN Return(MODELS[mode][ModelSize[size]])
    ELSE Return(MODELS[mode].s17B)

\* MODELS[mode][size.value]: the identifier, or KeyError when the table has
\* no entry for the pair
Lookup(mode, size) ==
    IF ModelSize[size] \in DOMAIN MODELS[mode]
    THEN Return(MODELS[mode][ModelSize[size]])
    ELSE Raise("KeyError")

\* --------------------------------------------------- numpy and soundfile

RECURSIVE Concatenate(_)
\* np.concatenate(chunks) for one-dimensional chunks
Concatenate(chunks) ==
    IF chunks = <<>> THEN <<>> ELSE Head(chunks) \o Concatenate(Tail(chunks))

OutputPaths == {"out.wav"}

NoWav == [exists |-> FALSE, rate |-> 0, samples |-> <<>>]

SfWriteAppends(existing, data, samplerate) ==
    [exists |-> TRUE, rate |-> samplerate, samples |-> existing.samples \o data]

\* sf.write(file, data, samplerate): the file is opened for writing, which
\* truncates whatever was there, and holds data at samplerate afterwards
SfWrite(existing, data, samplerate) ==
    [exists |-> TRUE, rate |-> samplerate, samples |-> data]

\* duration = len(audio) / SAMPLE_RATE, kept as an exact fraction
Duration(audio) == [num |-> Len(audio), den |-> SAMPLE_RATE]

NoSamplesGenerated(chunks) == Concatenate(chunks) = <<>>

NeverEmpty(chunks) == FALSE

\* "not audio_chunks": the list of chunks is empty
NoAudioGenerated(chunks) == chunks = <<>>

\* ------------------------------------------------------------- the commands

NotExited == 0 - 1

NoneValue == [kind |-> "none"]
NoReport == [saved |-> FALSE, samples |-> 0, duration |-> [num |-> 0, den |-> 1]]

\* Values of --voice / --instruct in the command specification: inline text,
\* and the name of a text file
VoiceInputs == { <<"h", "i">>, <<"a", ".", "t", "x", "t">> }

\* Option values the command line can carry for each command
ArgsOf(cmd) ==
    [cmd : {cmd},
     output : OutputPaths,
     model_size : IF cmd = "design" THEN {"large"} ELSE Sizes,
     ref_is_file : IF cmd = "clone" THEN BOOLEAN ELSE {FALSE},
     value : CASE cmd = "clone"  -> {NoneValue}
               [] cmd = "design" -> {Return(v) : v \in VoiceInputs}
               [] cmd = "custom" -> {NoneValue, Return(<<>>)}
                                      \cup {Return(v) : v \in VoiceInputs}]

NoProbe == [fn |-> "none", value |-> <<>>, mode |-> "design", size |-> "large"]

NoArgs ==
    [cmd |-> "none", output |-> "out.wav", model_size |-> "large",
     ref_is_file |-> FALSE, value |-> NoneValue]

Init ==
    /\ pc = "idle"
    /\ args = NoArgs
    /\ files \in {f \in [FilePaths -> FileEntries] :
                    \A q \in FilePaths : q # << <<"a", ".", "t", "x", "t">> >>
                                           => f[q] = NoTextFile}
    /\ fs = [o \in OutputPaths |-> NoWav]
    /\ fs0 = fs
    /\ trace = <<>>
    /\ model_id = None
    /\ model = None
    /\ resolved = NoneValue
    /\ audio_chunks = <<>>
    /\ emitted = <<>>
    /\ stream = "none"
    /\ report = NoReport
    /\ exit_code = NotExited
    /\ probe = NoProbe
    /\ answer = NoneValue

\* The process exits with status code: nothing of the invocation runs after it.
Exit(code) ==
    /\ pc' = "done"
    /\ exit_code' = code

Fixed == UNCHANGED <<files, probe, answer>>

\* The shell starts one of the three commands (app(), lines 185-186); every
\* invocation is a fresh process, so the locals start anew.
Invoke(a) ==
    /\ pc \in {"idle", "done"}
    /\ pc' = "check"
    /\ args' = a
    /\ fs0' = fs
    /\ trace' = <<>>
    /\ model_id' = None
    /\ model' = None
    /\ resolved' = NoneValue
    /\ audio_chunks' = <<>>
    /\ emitted' = <<>>
    /\ stream' = "none"
    /\ report' = NoReport
    /\ exit_code' = NotExited
    /\ UNCHANGED fs
    /\ Fixed

\* where each command goes after _check_apple_silicon()
AfterCheck(cmd) ==
    CASE cmd = "clone"  -> "ref_audio"
      [] cmd = "design" -> "resolve"
      [] cmd = "custom" -> "lookup"

\* _check_apple_silicon(): at most a warning on the console
CheckAppleSilicon ==
    /\ pc = "check"
    /\ trace' = Append(trace, "check_platform")
    /\ pc' = AfterCheck(args.cmd)
    /\ UNCHANGED <<args, fs, fs0, model_id, model, resolved, audio_chunks,
                   emitted, stream, report, exit_code>>
    /\ Fixed

\* clone, lines 106-108: ref_audio is not a file
CloneRefAudioMissing ==
    /\ pc = "ref_audio"
    /\ ~args.ref_is_file
    /\ trace' = trace \o <<"check_ref_audio", "error_ref_audio">>
    /\ Exit(1)
    /\ UNCHANGED <<args, fs, fs0, model_id, model, resolved, audio_chunks,
                   emitted, stream, report>>
    /\ Fixed

CloneRefAudioUnchecked ==
    /\ pc = "ref_audio"
    /\ trace' = Append(trace, "check_ref_audio")
    /\ pc' = "lookup"
    /\ UNCHANGED <<args, fs, fs0, model_id, model, resolved, audio_chunks,
                   emitted, stream, report, exit_code>>
    /\ Fixed

\* clone, line 106: ref_audio is a file
CloneRefAudioFound ==
    /\ pc = "ref_audio"
    /\ args.ref_is_file
    /\ trace' = Append(trace, "check_ref_audio")
    /\ pc' = "lookup"
    /\ UNCHANGED <<args, fs, fs0, model_id, model, resolved, audio_chunks,
                   emitted, stream, report, exit_code>>
    /\ Fixed

\* design, line 136: voice_desc = _read_file_or_string(voice)
DesignResolve ==
    /\ pc = "resolve"
    /\ LET r == ReadFileOrString(args.value.val)
       IN  /\ trace' = Append(trace, "resolve")
           /\ IF r.kind = "raise"
              THEN Exit(1) /\ UNCHANGED resolved
              ELSE /\ resolved' = r
                   /\ pc' = "lookup"
                   /\ UNCHANGED exit_code
    /\ UNCHANGED <<args, fs, fs0, model_id, model, audio_chunks, emitted,
                   stream, report>>
    /\ Fixed

\* design, line 137: MODELS["design"]["1.7B"]
DesignModelId == Return(MODELS.design.s17B)

\* the registry lookup of each command (lines 110, 137, 166)
CommandLookup(a) ==
    IF a.cmd = "design" THEN DesignModelId ELSE Lookup(a.cmd, a.model_size)

AfterLookupSkipsNotice(cmd) == "load"

AfterLookup(cmd) == "notice"

LookupModel ==
    /\ pc = "lookup"
    /\ LET r == CommandLookup(args)
       IN  /\ trace' = Append(trace, "lookup")
           /\ IF r.kind = "raise"
              THEN Exit(1) /\ UNCHANGED model_id
              ELSE /\ model_id' = r.val
                   /\ pc' = AfterLookup(args.cmd)
                   /\ UNCHANGED exit_code
    /\ UNCHANGED <<args, fs, fs0, model, resolved, audio_chunks, emitted,
                   stream, report>>
    /\ Fixed

\* lines 111, 138-139, 167: the "Mode ..." line, and in design the "Voice:"
\* preview right after it
PrintMode ==
    /\ pc = "notice"
    /\ trace' = trace \o (IF args.cmd = "design"
                          THEN <<"print_mode", "print_preview">>
                          ELSE <<"print_mode">>)
    /\ pc' = IF args.cmd = "custom" THEN "instruct" ELSE "load"
    /\ UNCHANGED <<args, fs, fs0, model_id, model, resolved, audio_chunks,
                   emitted, stream, report, exit_code>>
    /\ Fixed

\* "if instruct:" is false for None and for the empty string
Truthy(v) == v.kind = "return" /\ v.val # <<>>

\* custom, lines 169-172
CustomInstruct ==
    /\ pc = "instruct"
    /\ IF ~Truthy(args.value)
       THEN /\ resolved' = NoneValue
            /\ pc' = "load"
            /\ UNCHANGED <<trace, exit_code>>
       ELSE LET r == ReadFileOrString(args.value.val)
            IN  IF r.kind = "raise"
                THEN /\ trace' = Append(trace, "resolve")
                     /\ Exit(1)
                     /\ UNCHANGED resolved
                ELSE /\ resolved' = r
                     /\ trace' = trace \o <<"resolve", "print_preview">>
                     /\ pc' = "load"
                     /\ UNCHANGED exit_code
    /\ UNCHANGED <<args, fs, fs0, model_id, model, audio_chunks, emitted,
                   stream, report>>
    /\ Fixed

\* _load_model, lines 63-69: load_model(model_id) returns the model
LoadModel ==
    /\ pc = "load"
    /\ trace' = Append(trace, "load")
    /\ model' = model_id
    /\ pc' = "generate"
    /\ UNCHANGED <<args, fs, fs0, model_id, resolved, audio_chunks, emitted,
                   stream, report, exit_code>>
    /\ Fixed

\* _load_model: load_model(model_id) raises, nothing catches it
LoadModelFails ==
    /\ pc = "load"
    /\ trace' = Append(trace, "load")
    /\ Exit(1)
    /\ UNCHANGED <<args, fs, fs0, model_id, model, resolved, audio_chunks,
                   emitted, stream, report>>
    /\ Fixed

\* _generate_and_save, lines 74-78: the list is empty, the status line is
\* shown, the timer starts and model.generate(**gen_kwargs) is called
GenerateStart ==
    /\ pc = "generate"
    /\ audio_chunks' = <<>>
    /\ stream' = "open"
    /\ trace' = Append(trace, "generate")
    /\ pc' = "stream"
    /\ UNCHANGED <<args, fs, fs0, model_id, model, resolved, emitted, report,
                   exit_code>>
    /\ Fixed

\* The k-th chunk of an invocation: n samples, each carrying k, so that the
\* chunk a sample came from can be read off the buffer.
Chunk(k, n) == [i \in 1..n |-> k]

GenYieldWritesPartial(n) ==
    /\ pc = "stream"
    /\ stream = "open"
    /\ Len(emitted) < MaxChunks
    /\ LET c == Chunk(Len(emitted) + 1, n)
       IN  /\ emitted' = Append(emitted, c)
           /\ audio_chunks' = Append(audio_chunks, c)
           /\ fs' = [fs EXCEPT ![args.output] =
                        SfWrite(@, Concatenate(audio_chunks'), SAMPLE_RATE)]
    /\ UNCHANGED <<pc, args, fs0, trace, model_id, model, resolved, stream,
                   report, exit_code>>
    /\ Fixed

\* lines 78-79: the generator yields a result and its audio is appended
GenYield(n) ==
    /\ pc = "stream"
    /\ stream = "open"
    /\ Len(emitted) < MaxChunks
    /\ LET c == Chunk(Len(emitted) + 1, n)
       IN  /\ emitted' = Append(emitted, c)
           /\ audio_chunks' = Append(audio_chunks, c)
    /\ UNCHANGED <<pc, args, fs, fs0, trace, model_id, model, resolved, stream,
                   report, exit_code>>
    /\ Fixed

\* lines 78-80: the generator is exhausted, the loop ends, elapsed is taken
GenStop ==
    /\ pc = "stream"
    /\ stream = "open"
    /\ stream' = "exhausted"
    /\ pc' = "collected"
    /\ UNCHANGED <<args, fs, fs0, trace, model_id, model, resolved,
                   audio_chunks, emitted, report, exit_code>>
    /\ Fixed

\* line 78: the generator raises while a chunk is retrieved
GenRaise ==
    /\ pc = "stream"
    /\ stream = "open"
    /\ stream' = "raised"
    /\ Exit(1)
    /\ UNCHANGED <<args, fs, fs0, trace, model_id, model, resolved,
                   audio_chunks, emitted, report>>
    /\ Fixed

\* lines 82-84
NoAudio ==
    /\ pc = "collected"
    /\ NoAudioGenerated(audio_chunks)
    /\ trace' = Append(trace, "error_empty")
    /\ Exit(1)
    /\ UNCHANGED <<args, fs, fs0, model_id, model, resolved, audio_chunks,
                   emitted, stream, report>>
    /\ Fixed

AssembleNewestFirst(chunks) ==
    Concatenate([i \in 1..Len(chunks) |-> chunks[Len(chunks) + 1 - i]])

\* line 86
Assemble(chunks) == Concatenate(chunks)

\* lines 86-89: concatenate, write the WAV file, report
Save ==
    /\ pc = "collected"
    /\ ~NoAudioGenerated(audio_chunks)
    /\ LET audio == Assemble(audio_chunks)
       IN  /\ fs' = [fs EXCEPT ![args.output] = SfWrite(@, audio, SAMPLE_RATE)]
           /\ report' = [saved |-> TRUE, samples |-> Len(audio),
                         duration |-> Duration(audio)]
    /\ trace' = trace \o <<"concatenate", "write", "print_saved">>
    /\ Exit(0)
    /\ UNCHANGED <<args, fs0, model_id, model, resolved, audio_chunks, emitted,
                   stream>>
    /\ Fixed

Next ==
    \/ \E cmd \in Modes : \E a \in ArgsOf(cmd) : Invoke(a)
    \/ CheckAppleSilicon
    \/ CloneRefAudioMissing
    \/ CloneRefAudioFound
    \/ DesignResolve
    \/ LookupModel
    \/ PrintMode
    \/ CustomInstruct
    \/ LoadModel
    \/ LoadModelFails
    \/ GenerateStart
    \/ \E n \in 0..MaxChunkLen : GenYield(n)
    \/ GenStop
    \/ GenRaise
    \/ NoAudio
    \/ Save

Spec == Init /\ [][Next]_vars

\* ------------------------------------------- the pure functions on their own

Tokens == { <<"a">>, <<".">>, <<"/">>, <<".", "t", "x", "t">> }

RECURSIVE TokenStrings(_)
\* the strings made of at most n tokens
TokenStrings(n) ==
    IF n = 0 THEN {<<>>}
    ELSE LET shorter == TokenStrings(n - 1)
         IN  shorter \cup {s \o t : s \in shorter, t \in Tokens}

Values == TokenStrings(MaxTokens)

InitFn ==
    /\ \/ /\ probe \in [fn : {"resolve"}, value : Values, mode : {"design"},
                        size : {"large"}]
          /\ files \in [FilePaths -> FileEntries]
       \/ /\ probe \in [fn : {"lookup", "design_lookup"}, value : {<<>>},
                        mode : Modes, size : Sizes]
          /\ probe.fn = "design_lookup" => probe.mode = "design" /\ probe.size = "large"
          /\ files = [q \in FilePaths |-> NoTextFile]
    /\ answer = NoneValue
    /\ pc = "idle"
    /\ args = NoArgs
    /\ fs = [o \in OutputPaths |-> NoWav]
    /\ fs0 = fs
    /\ trace = <<>>
    /\ model_id = None
    /\ model = None
    /\ resolved = NoneValue
    /\ audio_chunks = <<>>
    /\ emitted = <<>>
    /\ stream = "none"
    /\ report = NoReport
    /\ exit_code = NotExited

Unused == UNCHANGED <<pc, args, files, fs, fs0, trace, model_id, model,
                      resolved, audio_chunks, emitted, stream, report,
                      exit_code, probe>>

\* a call of _read_file_or_string(value)
CallReadFileOrString ==
    /\ probe.fn = "resolve"
    /\ answer = NoneValue
    /\ answer' = ReadFileOrString(probe.value)
    /\ Unused

\* a lookup MODELS[mode][size.value]
CallLookup ==
    /\ probe.fn = "lookup"
    /\ answer = NoneValue
    /\ answer' = Lookup(probe.mode, probe.size)
    /\ Unused

\* the lookup of the design command
CallDesignLookup ==
    /\ probe.fn = "design_lookup"
    /\ answer = NoneValue
    /\ answer' = CommandLookup([NoArgs EXCEPT !.cmd = "design"])
    /\ Unused

NextFn == CallReadFileOrString \/ CallLookup \/ CallDesignLookup

SpecFn == InitFn /\ [][NextFn]_vars

\* ------------------------------------------------------------ the claims

Txt == <<".", "t", "x", "t">>

EndsWith(s, suffix) ==
    /\ Len(s) >= Len(suffix)
    /\ SubSeq(s, Len(s) - Len(suffix) + 1, Len(s)) = suffix

\* the entry of the file the string s names when handed to the system as is
FileNamedBy(s) == files[Walk(<<>>, SplitSlash(s))]

AllReadable == \A q \in FilePaths : files[q].exists => files[q].readable

Resolved == probe.fn = "resolve" /\ answer # NoneValue

RECURSIVE SumLens(_)
SumLens(chunks) ==
    IF chunks = <<>> THEN 0 ELSE Len(Head(chunks)) + SumLens(Tail(chunks))

\* buffer holds the chunks one after the other, in order: sample i of chunk k
\* sits right after all samples of the chunks before k
InOrder(buffer, chunks) ==
    /\ Len(buffer) = SumLens(chunks)
    /\ \A k \in 1..Len(chunks) : \A i \in 1..Len(chunks[k]) :
          buffer[SumLens(SubSeq(chunks, 1, k - 1)) + i] = chunks[k][i]

Events == {trace[i] : i \in 1..Len(trace)}

Times(e) == Cardinality({i \in 1..Len(trace) : trace[i] = e})

Succeeded == pc = "done" /\ exit_code = 0
Failed == pc = "done" /\ exit_code = 1
Written == fs[args.output]
Before == fs0[args.output]
AllEmpty(chunks) == \A k \in 1..Len(chunks) : chunks[k] = <<>>
NoneEmpty(chunks) == \A k \in 1..Len(chunks) : chunks[k] # <<>>

\* C1: the output file differs from what it was when the invocation started
\* only once the invocation has succeeded, that is after the model was
\* loaded, the stream was consumed to its end and the whole buffer was
\* assembled, and then it holds exactly that buffer; an invocation that has
\* failed has left the file as it was.
C1_NoPartialOutput ==
    /\ fs # fs0 =>
          /\ Succeeded
          /\ model # None
          /\ stream = "exhausted"
          /\ audio_chunks = emitted
          /\ Written.exists /\ InOrder(Written.samples, emitted)
    /\ exit_code # 0 => fs = fs0

\* C1 witness: the stream failed after chunks had been retrieved, and the
\* file of an earlier invocation is still there unchanged
C1_Witness ==
    /\ Failed
    /\ stream = "raised"
    /\ emitted # <<>>
    /\ Before.exists
    /\ fs = fs0

\* C2: when the stream ends without having yielded a chunk, the invocation
\* fails with the "No audio generated" error and status 1, and nothing was
\* written: the output path is as it was.
C2_EmptyGenerationFails ==
    (pc = "done" /\ stream = "exhausted" /\ emitted = <<>>) =>
        /\ exit_code = 1
        /\ Last(trace) = "error_empty"
        /\ "write" \notin Events
        /\ ~report.saved
        /\ fs = fs0

\* C2 witness: an empty generation over an existing output file
C2_Witness ==
    /\ Failed
    /\ stream = "exhausted"
    /\ emitted = <<>>
    /\ Before.exists

\* C3: after a successful invocation whose chunks were all non-empty, the
\* written buffer is the chunks in emission order, each exactly once; its
\* sample count is the sum of the chunk lengths and the duration is that
\* count over 24000.
C3_ConcatenationInOrder ==
    (Succeeded /\ NoneEmpty(emitted)) =>
        /\ audio_chunks = emitted
        /\ InOrder(Written.samples, emitted)
        /\ report.samples = SumLens(emitted)
        /\ report.duration.den # 0
        /\ report.duration.num * 24000 = SumLens(emitted) * report.duration.den

\* C3 witness: two non-empty chunks of different lengths were written
C3_Witness ==
    /\ Succeeded
    /\ Len(emitted) = 2
    /\ NoneEmpty(emitted)
    /\ Len(emitted[1]) # Len(emitted[2])

\* C4: in a clone invocation whose --ref-audio is not a file, nothing but the
\* platform check, the reference-audio check and its error message ever
\* runs: no lookup, no notice, no model load, no generation, no write; the
\* invocation ends with status 1.
C4_CloneValidatesFirst ==
    (args.cmd = "clone" /\ ~args.ref_is_file) =>
        /\ \E n \in 0..3 :
              trace = SubSeq(<<"check_platform", "check_ref_audio",
                               "error_ref_audio">>, 1, n)
        /\ model_id = None /\ model = None /\ stream = "none"
        /\ fs = fs0
        /\ pc = "done" => exit_code = 1 /\ Last(trace) = "error_ref_audio"

\* C4 witness: such an invocation has ended
C4_Witness ==
    /\ args.cmd = "clone"
    /\ ~args.ref_is_file
    /\ Failed
    /\ "error_ref_audio" \in Events

\* the step of the command sequence an event belongs to (0: none of them)
StepOf(e) ==
    CASE e \in {"check_platform", "check_ref_audio"}   -> 1
      [] e = "lookup"                                  -> 2
      [] e \in {"print_mode", "print_preview"}         -> 3
      [] e = "load"                                    -> 4
      [] e \in {"generate", "concatenate", "write"}    -> 5
      [] e = "print_saved"                             -> 6
      [] OTHER                                         -> 0

Steps == LET ranked == SelectSeq(trace, LAMBDA e : StepOf(e) # 0)
         IN  [i \in 1..Len(ranked) |-> StepOf(ranked[i])]

\* C5: the steps of an invocation run in the order precondition checks,
\* registry lookup, status notice, model loader, generation pipeline, result
\* notice: the sequence starts with the checks, never goes back, never skips
\* a step, each call (check, lookup, mode line, load, generate, write,
\* result line) happens at most once, a successful invocation has run all
\* six, and a failed one has run nothing after the step that failed.
C5_StrictSequence ==
    /\ Steps # <<>> => Steps[1] = 1
    /\ \A i \in 1..(Len(Steps) - 1) : Steps[i + 1] \in {Steps[i], Steps[i] + 1}
    /\ \A e \in {"check_platform", "check_ref_audio", "lookup", "print_mode",
                 "load", "generate", "write", "print_saved"} : Times(e) <= 1
    /\ Succeeded => {Steps[i] : i \in 1..Len(Steps)} = 1..6
    /\ exit_code # NotExited => pc = "done"
    /\ Failed =>
          /\ "print_saved" \notin Events
          /\ Last(trace) \in {"error_ref_audio", "resolve", "lookup", "load",
                              "generate", "error_empty"}

\* C5 witness: a successful custom invocation with a resolved instruction
C5_Witness ==
    /\ Succeeded
    /\ args.cmd = "custom"
    /\ "resolve" \in Events

\* C6: a successful invocation over an output file that already exists
\* leaves exactly its own audio there, at 24000 Hz: nothing of the earlier
\* content remains.
C6_Overwrite ==
    (Succeeded /\ Before.exists) =>
        /\ Written.exists
        /\ Written.rate = 24000
        /\ Len(Written.samples) = SumLens(emitted)
        /\ InOrder(Written.samples, emitted)

\* C6 witness: the second run wrote something else than the first had left
C6_Witness ==
    /\ Succeeded
    /\ Before.exists
    /\ Before.samples # <<>>
    /\ Written.samples # Before.samples

\* C7 (as claimed): when every file present is readable, a value that ends
\* in .txt and names an existing file resolves to that file's trimmed
\* contents, and every other value resolves to itself.
C7_ResolverResult ==
    (Resolved /\ AllReadable) =>
        IF EndsWith(probe.value, Txt) /\ StatIsFile(probe.value)
        THEN answer = Return(Strip(FileNamedBy(probe.value).text))
        ELSE answer = Return(probe.value)

\* C8 (as claimed): the resolver returns a string for every value and every
\* filesystem, whether or not the file it names can be read.
C8_ResolverNeverFails == Resolved => answer.kind = "return"

\* the identifiers as documented
Documented(mode, size) ==
    CASE mode = "clone" /\ size = "small" ->
            Return("mlx-community/Qwen3-TTS-12Hz-0.6B-Base-bf16")
      [] mode = "clone" /\ size = "large" ->
            Return("mlx-community/Qwen3-TTS-12Hz-1.7B-Base-bf16")
      [] mode = "custom" /\ size = "small" ->
            Return("mlx-community/Qwen3-TTS-12Hz-0.6B-CustomVoice-bf16")
      [] mode = "custom" /\ size = "large" ->
            Return("mlx-community/Qwen3-TTS-12Hz-1.7B-CustomVoice-bf16")
      [] mode = "design" /\ size = "large" ->
            Return("mlx-community/Qwen3-TTS-12Hz-1.7B-VoiceDesign-bf16")
      [] OTHER -> Raise("KeyError")

\* C9: a lookup returns the documented identifier for each of the five pairs
\* of the table and fails for design with small; the lookup of the design
\* command yields the 1.7B VoiceDesign identifier.
C9_RegistryLookup ==
    /\ (probe.fn = "lookup" /\ answer # NoneValue) =>
          answer = Documented(probe.mode, probe.size)
    /\ (probe.fn = "design_lookup" /\ answer # NoneValue) =>
          answer = Return("mlx-community/Qwen3-TTS-12Hz-1.7B-VoiceDesign-bf16")

\* C9 witness: the lookup of design with small has failed
C9_Witness ==
    /\ probe.fn = "lookup"
    /\ probe.mode = "design"
    /\ probe.size = "small"
    /\ answer = Raise("KeyError")

\* C10: when the stream ends after at least one chunk, the invocation
\* succeeds and writes the file whatever the chunks hold; when every chunk
\* is empty the written buffer has no samples and the duration is 0.
C10_EmptinessCountsChunks ==
    (pc = "done" /\ stream = "exhausted" /\ emitted # <<>>) =>
        /\ exit_code = 0
        /\ report.saved
        /\ Written.exists
        /\ "error_empty" \notin Events
        /\ AllEmpty(emitted) =>
              /\ Written.samples = <<>>
              /\ report.samples = 0
              /\ report.duration.num = 0

\* C10 witness: two chunks without samples were written as an empty file
C10_Witness ==
    /\ Succeeded
    /\ Len(emitted) = 2
    /\ AllEmpty(emitted)
    /\ Written.exists
    /\ Written.samples = <<>>

====
